---- MODULE Spec2Model ----
(***************************************************************************)
(* Notebook translation tools: translate_notebooks.py (googletrans, with   *)
(* retry), translate_notebooks_gcloud.py (Google Cloud Translation API)    *)
(* and translate_notebooks2.py (either engine, optional translation of the *)
(* string literals of code cells).                                         *)
(*                                                                         *)
(* A text is a sequence of one-character strings, a cell's source a        *)
(* sequence of texts (its fragments), a file name a sequence of tokens     *)
(* whose last token is the extension.                                      *)
(***************************************************************************)
EXTENDS Integers, Sequences, FiniteSets, TLC

\* ------------------------------------------------------------------ bounds

\* longest text handed to a translate entry point called on its own
MaxText == 2
\* largest retries argument of a translate entry point called on its own
MaxRetries == 3
\* longest code body handed to translate_code_cell_source called on its own
MaxBody == 5
\* largest min_length handed to translate_code_cell_source called on its own
MaxMinLength == 2
\* most entries of the directory listing of a batch run
MaxListing == 2

\* --------------------------------------------------------- program constants

\* retries: int = 3
DefaultRetries == 3
\* min_length=20 at the call of translate_code_cell_source
MinLiteralLength == 20

\* ------------------------------------------------------------- characters

SQ == "'"
DQ == "\""
NL == "\n"
SP == " "
Quotes == {SQ, DQ}
Whitespace == {SP, NL}

Min(S) == CHOOSE x \in S : \A y \in S : x <= y
Max(S) == CHOOSE x \in S : \A y \in S : x >= y

\* n copies of the character c
Rep(c, n) == [i \in 1..n |-> c]

\* all texts over the alphabet A of length at most n
TextsUpTo(A, n) == UNION {[1..k -> A] : k \in 0..n}

\* str.strip() leaves nothing: the text is empty or whitespace only
IsBlank_emptyonly(text) == text = <<>>
IsBlank(text) == \A i \in 1..Len(text) : text[i] \in Whitespace

\* a backend's recasing of a text (the stub "translation" of the scenarios)
UpperChar(c) == IF c = "a" THEN "A" ELSE IF c = "x" THEN "X" ELSE c
Upper(text) == [i \in 1..Len(text) |-> UpperChar(text[i])]

\* ''.join(source)
RECURSIVE Join(_)
Join(source) == IF source = <<>> THEN <<>> ELSE Head(source) \o Join(Tail(source))

\* str.splitlines(keepends=True)
RECURSIVE SplitLines(_)
SplitLines(text) ==
  IF text = <<>> THEN <<>>
  ELSE LET nls == {i \in 1..Len(text) : text[i] = NL}
       IN IF nls = {} THEN <<text>>
          ELSE <<SubSeq(text, 1, Min(nls))>> \o SplitLines(SubSeq(text, Min(nls) + 1, Len(text)))

\* ---------------------------------------------------------- STRING_LITERAL_RE
\* (?P<quote>['\"]{1,3})(?P<content>.*?)(?P=quote) with re.DOTALL.
\* A match is [start, n, close]: the opening marker is text[start..start+n-1],
\* the content text[start+n..close-1], the closing marker text[close..close+n-1].

NoMatch == [start |-> 0, n |-> 0, close |-> 0]

\* ['\"]{1,3}: the most quote characters (of either kind) the marker can take at i
QuoteRun(text, i) ==
  Max({n \in 0..3 : \A k \in 0..(n - 1) : i + k <= Len(text) /\ text[i + k] \in Quotes})

\* (?P=quote): the places after the marker where the same n characters occur again
Closes(text, i, n) ==
  {e \in (i + n)..(Len(text) - n + 1) : SubSeq(text, e, e + n - 1) = SubSeq(text, i, i + n - 1)}

\* the match starting at i: the marker is greedy (the longest one that can be
\* closed), the content lazy (up to the first closing marker)
MatchAt(text, i) ==
  LET ns == {n \in 1..QuoteRun(text, i) : Closes(text, i, n) # {}}
  IN IF ns = {} THEN NoMatch
     ELSE [start |-> i, n |-> Max(ns), close |-> Min(Closes(text, i, Max(ns)))]

\* the non-overlapping matches from pos on, leftmost first (what re.sub visits)
RECURSIVE FindAll(_, _)
FindAll(text, pos) ==
  LET starts == {i \in pos..Len(text) : MatchAt(text, i) # NoMatch}
  IN IF starts = {} THEN <<>>
     ELSE LET m == MatchAt(text, Min(starts))
          IN <<m>> \o FindAll(text, m.close + m.n)

\* match.group("quote"), match.group("content"), match.group(0)
GroupQuote(text, m) == SubSeq(text, m.start, m.start + m.n - 1)
GroupContent(text, m) == SubSeq(text, m.start + m.n, m.close - 1)
GroupAll(text, m) == SubSeq(text, m.start, m.close + m.n - 1)

\* re.sub's result: the text with match k replaced by repl[k]
RECURSIVE SubFrom(_, _, _, _, _)
SubFrom(text, ms, repl, k, pos) ==
  IF k > Len(ms) THEN SubSeq(text, pos, Len(text))
  ELSE SubSeq(text, pos, ms[k].start - 1) \o repl[k]
       \o SubFrom(text, ms, repl, k + 1, ms[k].close + ms[k].n)
Sub(text, ms, repl) == SubFrom(text, ms, repl, 1, 1)

\* if len(content) >= min_length
LongEnough_strict(content, min) == Len(content) > min
LongEnough(content, min) == Len(content) >= min

\* f"{quote}{translated}{quote}"
Requote_open(quote, translated) == quote \o translated
Requote(quote, translated) == quote \o translated \o quote

\* ------------------------------------------------------------------- state

VARIABLES
  entry,          \* the function the run entered: "main", "translate" or "translate_code_cell_source"
  script,         \* the program: "translate_notebooks", "translate_notebooks2" or "translate_notebooks_gcloud"
  engine,         \* --engine of translate_notebooks2
  translate_code, \* --translate-code of translate_notebooks2
  cred,           \* the provider's credential is set in the environment
  dir_exists,     \* os.path.isdir(directory)
  listing,        \* os.listdir(directory)
  fs,             \* the directory's files: name -> content
  translator,     \* the translate entry point in use
  pc,             \* position of the pipeline
  idx,            \* position of the batch loop in the listing
  notebook,       \* the document in memory
  original,       \* the document as json.load returned it
  loaded,         \* the listing position of the document in memory, 0 before the first
  cidx,           \* position of the cell loop
  translated_any,
  unit_changed,   \* some translate call of this document returned a text other than its argument
  units,          \* the translate calls that returned: [cell, lit, text, result, calls, failed]
  source,         \* translate_code_cell_source: its argument
  min_length,     \* translate_code_cell_source: its argument
  code_text,      \* translate_code_cell_source: "".join(source)
  matches,        \* the matches re.sub visits
  midx,           \* the match the replacer is at
  repl,           \* the replacer's return values so far
  sent,           \* the matches whose content was passed to translator.translate
  new_source,     \* translate_code_cell_source: its return value
  text,           \* translate: its argument
  retries,        \* translate: the retry budget
  cpc,            \* position of the translate call
  attempt,        \* the loop variable of the retry loop
  result,         \* translate: its return value
  ncalls,         \* backend calls of this translate call
  nsleeps,        \* time.sleep calls of this translate call
  nraised,        \* backend calls of this translate call that raised
  nempty,         \* backend calls of this translate call that returned an empty result
  got,            \* the non-empty results the backend returned in this translate call
  touched,        \* what the run has done to its environment: "read", "call", "write"
  writes,         \* the write attempts of the run: [by, path, outcome]
  processed       \* the listing positions handed to the document function

cfgvars == <<entry, script, engine, translate_code, cred, dir_exists, listing>>
docvars == <<fs, pc, idx, notebook, original, loaded, cidx, translated_any, unit_changed, units, writes, processed>>
codevars == <<source, min_length, code_text, matches, midx, repl, sent, new_source>>
callvars == <<translator, text, retries, cpc, attempt, result, ncalls, nsleeps, nraised, nempty, got>>
vars == <<cfgvars, docvars, codevars, callvars, touched>>

\* ------------------------------------------------------- translate entry points

\* translate_text of translate_notebooks.py and GoogletransTranslator.translate
\* retry; GoogleCloudTranslator.translate and translate_text of
\* translate_notebooks_gcloud.py call the backend once
Retrying == {"translate_text", "GoogletransTranslator"}
Single == {"GoogleCloudTranslator", "translate_text_gcloud"}
Translators == Retrying \cup Single

\* what a backend may return for a text: nothing, the text itself, its recasing,
\* the text with a character more, the text with a character less
BackendResults(t) == {<<>>, t, Upper(t), t \o <<DQ>>, Tail(t)}

\* for attempt in range(1, retries + 1): where the loop stands at attempt a
LoopPc_short(a, r) == IF a < r THEN "attempt" ELSE "exhausted"
LoopPc(a, r) == IF a <= r THEN "attempt" ELSE "exhausted"

\* a result that is returned ends the call: return result.text
AfterResult_goeson(a, r) == LoopPc(a + 1, r)
AfterResult(a, r) == "returned"

\* the caller's frame: a translate call leaves everything else alone
CallFrame == UNCHANGED <<cfgvars, docvars, codevars, translator, text, retries>>

\* if not text.strip(): return text
Enter ==
  /\ cpc = "entry"
  /\ IF IsBlank(text)
     THEN /\ result' = text
          /\ cpc' = "returned"
          /\ attempt' = attempt
     ELSE /\ result' = result
          /\ attempt' = 1
          /\ cpc' = IF translator \in Retrying THEN LoopPc(1, retries) ELSE "attempt"
  /\ UNCHANGED <<ncalls, nsleeps, nraised, nempty, got, touched>>
  /\ CallFrame

\* the backend call raises: the retrying entry points log and sleep, the others
\* log and return the text
BackendRaises ==
  /\ cpc = "attempt"
  /\ ncalls' = ncalls + 1
  /\ nraised' = nraised + 1
  /\ touched' = touched \cup {"call"}
  /\ IF translator \in Retrying
     THEN cpc' = "sleep" /\ result' = result
     ELSE cpc' = "returned" /\ result' = text
  /\ UNCHANGED <<attempt, nsleeps, nempty, got>>
  /\ CallFrame

\* the backend call returns r: the retrying entry points return a non-empty r and
\* go on to the next attempt on an empty one; the others return r as it is
\* if result and result.text: an empty result does not leave the loop
Falsy_never(r) == FALSE
Falsy(r) == r = <<>>

BackendReturns ==
  /\ cpc = "attempt"
  /\ \E r \in BackendResults(text) :
       /\ ncalls' = ncalls + 1
       /\ touched' = touched \cup {"call"}
       /\ IF translator \in Retrying /\ Falsy(r)
          THEN /\ nempty' = nempty + 1
               /\ attempt' = attempt + 1
               /\ cpc' = LoopPc(attempt + 1, retries)
               /\ UNCHANGED <<result, got>>
          ELSE /\ result' = r
               /\ cpc' = AfterResult(attempt, retries)
               /\ got' = IF r = <<>> THEN got ELSE got \cup {r}
               /\ UNCHANGED <<nempty, attempt>>
  /\ UNCHANGED <<nsleeps, nraised>>
  /\ CallFrame

\* time.sleep(delay) in the except clause, then the next attempt
Sleep ==
  /\ cpc = "sleep"
  /\ nsleeps' = nsleeps + 1
  /\ attempt' = attempt + 1
  /\ cpc' = LoopPc(attempt + 1, retries)
  /\ UNCHANGED <<result, ncalls, nraised, nempty, got, touched>>
  /\ CallFrame

\* the loop is over: log the error, return text
GiveUp ==
  /\ cpc = "exhausted"
  /\ result' = text
  /\ cpc' = "returned"
  /\ UNCHANGED <<attempt, ncalls, nsleeps, nraised, nempty, got, touched>>
  /\ CallFrame

Translate == Enter \/ BackendRaises \/ BackendReturns \/ Sleep \/ GiveUp

\* a translate call starts: the counters of the previous call are gone
NewCall(t) ==
  /\ text' = t
  /\ cpc' = "entry"
  /\ attempt' = 0
  /\ result' = <<>>
  /\ ncalls' = 0
  /\ nsleeps' = 0
  /\ nraised' = 0
  /\ nempty' = 0
  /\ got' = {}

NoDoc == [json |-> "none", cells |-> <<>>, metadata |-> ""]

\* no document, no code cell, no call in progress
IdleDoc ==
  /\ fs = <<>> /\ idx = 0 /\ notebook = NoDoc /\ original = NoDoc /\ loaded = 0 /\ cidx = 0
  /\ translated_any = FALSE /\ unit_changed = FALSE /\ units = <<>> /\ writes = {} /\ processed = {}
IdleCode ==
  /\ source = <<>> /\ min_length = 0 /\ code_text = <<>> /\ matches = <<>> /\ midx = 0
  /\ repl = <<>> /\ sent = {} /\ new_source = <<>>
IdleCall ==
  /\ text = <<>> /\ cpc = "idle" /\ attempt = 0 /\ result = <<>>
  /\ ncalls = 0 /\ nsleeps = 0 /\ nraised = 0 /\ nempty = 0 /\ got = {}
IdleCfg ==
  /\ script = "none" /\ engine = "none" /\ translate_code = FALSE /\ cred = FALSE
  /\ dir_exists = FALSE /\ listing = <<>>

\* -------------------------------------------------- translate_code_cell_source

\* code_text = "".join(source); re.sub starts
TcsEntry ==
  /\ pc = "tcs_entry"
  /\ code_text' = Join(source)
  /\ matches' = FindAll(Join(source), 1)
  /\ midx' = 1
  /\ repl' = <<>>
  /\ sent' = {}
  /\ pc' = "sub"
  /\ UNCHANGED <<cfgvars, callvars, touched, source, min_length, new_source>>
  /\ UNCHANGED <<fs, idx, notebook, original, loaded, cidx, translated_any, unit_changed, units, writes, processed>>

\* replacer(match): a content of min_length or more goes to translator.translate,
\* a shorter match is returned as it is
Replacer ==
  /\ pc = "sub"
  /\ midx <= Len(matches)
  /\ IF LongEnough(GroupContent(code_text, matches[midx]), min_length)
     THEN /\ NewCall(GroupContent(code_text, matches[midx]))
          /\ sent' = sent \cup {midx}
          /\ pc' = "replacer"
          /\ UNCHANGED <<midx, repl>>
     ELSE /\ repl' = Append(repl, GroupAll(code_text, matches[midx]))
          /\ midx' = midx + 1
          /\ UNCHANGED <<pc, sent, text, cpc, attempt, result, ncalls, nsleeps, nraised, nempty, got>>
  /\ UNCHANGED <<cfgvars, touched, translator, retries, source, min_length, code_text, matches, new_source>>
  /\ UNCHANGED <<fs, idx, notebook, original, loaded, cidx, translated_any, unit_changed, units, writes, processed>>

\* what a translate call that returned did for its unit: the cell and literal it
\* was for (literal 0 for a markdown cell), its argument, its return value, the
\* backend calls it made, and whether it got no non-empty result
UnitRecord(k) ==
  [cell |-> cidx, lit |-> k, text |-> text, result |-> result, calls |-> ncalls, failed |-> got = {}]

\* translator.translate(content) returned: return f"{quote}{translated}{quote}"
ReplacerReturn ==
  /\ pc = "replacer"
  /\ cpc = "returned"
  /\ repl' = Append(repl, Requote(GroupQuote(code_text, matches[midx]), result))
  /\ midx' = midx + 1
  /\ unit_changed' = (unit_changed \/ result # text)
  /\ units' = Append(units, UnitRecord(midx))
  /\ pc' = "sub"
  /\ cpc' = "idle"
  /\ UNCHANGED <<cfgvars, touched, source, min_length, code_text, matches, sent, new_source>>
  /\ UNCHANGED <<translator, text, retries, attempt, result, ncalls, nsleeps, nraised, nempty, got>>
  /\ UNCHANGED <<fs, idx, notebook, original, loaded, cidx, translated_any, writes, processed>>

\* re.sub is over: return new_code_text.splitlines(keepends=True)
SubDone ==
  /\ pc = "sub"
  /\ midx > Len(matches)
  /\ new_source' = SplitLines(Sub(code_text, matches, repl))
  /\ pc' = "tcs_return"
  /\ UNCHANGED <<cfgvars, callvars, touched, source, min_length, code_text, matches, midx, repl, sent>>
  /\ UNCHANGED <<fs, idx, notebook, original, loaded, cidx, translated_any, unit_changed, units, writes, processed>>

TranslateCodeCellSource == TcsEntry \/ Replacer \/ ReplacerReturn \/ SubDone

\* a translate entry point called on its own, with any text and retry budget
CallTexts == TextsUpTo({SP, NL, "a"}, MaxText)
InitCall ==
  /\ entry = "translate"
  /\ IdleCfg /\ IdleDoc /\ IdleCode
  /\ pc = "none"
  /\ touched = {}
  /\ translator \in Translators
  /\ text \in CallTexts
  /\ retries \in 0..MaxRetries
  /\ cpc = "entry" /\ attempt = 0 /\ result = <<>>
  /\ ncalls = 0 /\ nsleeps = 0 /\ nraised = 0 /\ nempty = 0 /\ got = {}

SpecCall == InitCall /\ [][Translate]_vars

\* the same call run to its end: the code is one thread of blocking calls, so a
\* step that can be taken is taken
SpecCallFair == InitCall /\ [][Translate]_vars /\ WF_vars(Translate)

\* translate_code_cell_source called on its own, with any body and threshold
CodeBodies == TextsUpTo({SQ, DQ, "a", NL}, MaxBody)
InitCode ==
  /\ entry = "translate_code_cell_source"
  /\ IdleCfg /\ IdleDoc /\ IdleCall
  /\ pc = "tcs_entry"
  /\ touched = {}
  /\ translator \in {"GoogletransTranslator", "GoogleCloudTranslator"}
  /\ retries = DefaultRetries
  /\ \E body \in CodeBodies : source = SplitLines(body)
  /\ min_length \in 1..MaxMinLength
  /\ code_text = <<>> /\ matches = <<>> /\ midx = 0 /\ repl = <<>> /\ sent = {}
  /\ new_source = <<>>

SpecCode == InitCode /\ [][TranslateCodeCellSource \/ Translate]_vars

\* ---------------------------------------------------------------- pipeline

Scripts == {"translate_notebooks", "translate_notebooks2", "translate_notebooks_gcloud"}

\* the provider that needs a credential: GOOGLE_APPLICATION_CREDENTIALS for
\* engine gcloud, GOOGLE_API_KEY for translate_notebooks_gcloud.py
Credentialed(s, e) ==
  s = "translate_notebooks_gcloud" \/ (s = "translate_notebooks2" /\ e = "gcloud")

\* if not credentials_path: raise EnvironmentError / if not GOOGLE_API_KEY: exit(1)
CredentialOk_unchecked(s, e, c) == TRUE
CredentialOk(s, e, c) == Credentialed(s, e) => c

\* the translate entry point each program uses
TranslatorOf(s, e) ==
  IF s = "translate_notebooks" THEN "translate_text"
  ELSE IF s = "translate_notebooks_gcloud" THEN "translate_text_gcloud"
  ELSE IF e = "gcloud" THEN "GoogleCloudTranslator" ELSE "GoogletransTranslator"

\* f"translated_{filename}" / f"jp_{filename}"
Prefix(s) == IF s = "translate_notebooks2" THEN "jp_" ELSE "translated_"
OutputName(s, filename) == <<Prefix(s)>> \o filename

\* filename.endswith('.ipynb')
EndsWithIpynb(filename) == filename[Len(filename)] = ".ipynb"

\* the branch of the cell loop a cell takes
CellBranch_anycode(s, cell_type, tc) ==
  IF cell_type = "markdown" THEN "markdown"
  ELSE IF s = "translate_notebooks2" /\ cell_type = "code" THEN "code"
  ELSE "skip"
CellBranch(s, cell_type, tc) ==
  IF cell_type = "markdown" THEN "markdown"
  ELSE IF s = "translate_notebooks2" /\ cell_type = "code" /\ tc THEN "code"
  ELSE "skip"

\* cell['source'] after a markdown cell's translation: translate_notebooks.py
\* assigns [translated_text] always, the others only when the text changed
MdSource_keep(s, old, translated) == old
MdSource(s, old, translated) ==
  IF s = "translate_notebooks" \/ translated # Join(old) THEN <<translated>> ELSE old

\* every program reads and parses inside try ... except Exception: log, return
CatchesLoadError_none(s) == FALSE
CatchesLoadError(s) == TRUE

\* if translated_text != original_text / if "".join(new_source) != "".join(original_source)
Differs_always(new, old) == TRUE
Differs(new, old) == new # old

\* the write of translate_notebooks_gcloud.py stands in no try block
CatchesWriteError(s) == s # "translate_notebooks_gcloud"

\* provider construction: the module-level check of translate_notebooks_gcloud.py,
\* get_translator(engine) in main of translate_notebooks2.py
Main ==
  /\ pc = "main"
  /\ IF CredentialOk(script, engine, cred)
     THEN /\ translator' = TranslatorOf(script, engine)
          /\ retries' = DefaultRetries
          /\ pc' = "dir"
     ELSE /\ pc' = "exit"
          /\ UNCHANGED <<translator, retries>>
  /\ UNCHANGED <<cfgvars, codevars, touched>>
  /\ UNCHANGED <<text, cpc, attempt, result, ncalls, nsleeps, nraised, nempty, got>>
  /\ UNCHANGED <<fs, idx, notebook, original, loaded, cidx, translated_any, unit_changed, units, writes, processed>>

\* translate_notebooks_in_directory: if not os.path.isdir(directory): return
Directory ==
  /\ pc = "dir"
  /\ IF dir_exists THEN pc' = "loop" /\ idx' = 1 ELSE pc' = "done" /\ idx' = idx
  /\ UNCHANGED <<cfgvars, codevars, callvars, touched>>
  /\ UNCHANGED <<fs, notebook, original, loaded, cidx, translated_any, unit_changed, units, writes, processed>>

\* for filename in os.listdir(directory): if filename.endswith('.ipynb'): ...
NextFile ==
  /\ pc = "loop"
  /\ IF idx > Len(listing)
     THEN pc' = "done" /\ UNCHANGED <<idx, processed>>
     ELSE IF EndsWithIpynb(listing[idx])
          THEN pc' = "load" /\ processed' = processed \cup {idx} /\ idx' = idx
          ELSE pc' = "loop" /\ idx' = idx + 1 /\ processed' = processed
  /\ UNCHANGED <<cfgvars, codevars, callvars, touched>>
  /\ UNCHANGED <<fs, notebook, original, loaded, cidx, translated_any, unit_changed, units, writes>>

\* open(input_path) and json.load: on any exception log and return
Load ==
  /\ pc = "load"
  /\ touched' = touched \cup {"read"}
  /\ IF fs[listing[idx]].json = "object"
     THEN /\ notebook' = fs[listing[idx]]
          /\ original' = fs[listing[idx]]
          /\ loaded' = idx
          /\ cidx' = 1
          /\ translated_any' = FALSE
          /\ unit_changed' = FALSE
          /\ units' = <<>>
          /\ pc' = "cell"
          /\ idx' = idx
     ELSE /\ IF CatchesLoadError(script)
             THEN pc' = "loop" /\ idx' = idx + 1
             ELSE pc' = "aborted" /\ idx' = idx
          /\ UNCHANGED <<notebook, original, loaded, cidx, translated_any, unit_changed, units>>
  /\ UNCHANGED <<cfgvars, codevars, callvars, fs, writes, processed>>

\* for cell in notebook.get('cells', []): the loop is over after the last cell
CellsDone_early(c, cells) == c >= Len(cells)
CellsDone(c, cells) == c > Len(cells)

\* for cell in notebook.get('cells', []): the cell's branch
Cell ==
  /\ pc = "cell"
  /\ IF CellsDone(cidx, notebook.cells)
     THEN /\ pc' = "finalize"
          /\ UNCHANGED <<cidx, source, min_length, callvars>>
     ELSE LET cell == notebook.cells[cidx]
              branch == CellBranch(script, cell.cell_type, translate_code)
          IN IF branch = "markdown"
             THEN /\ NewCall(Join(cell.source))
                  /\ pc' = "md_call"
                  /\ UNCHANGED <<cidx, source, min_length, translator, retries>>
             ELSE IF branch = "code"
             THEN /\ source' = cell.source
                  /\ min_length' = MinLiteralLength
                  /\ pc' = "tcs_entry"
                  /\ UNCHANGED <<cidx, callvars>>
             ELSE /\ cidx' = cidx + 1
                  /\ pc' = "cell"
                  /\ UNCHANGED <<source, min_length, callvars>>
  /\ UNCHANGED <<cfgvars, touched, code_text, matches, midx, repl, sent, new_source>>
  /\ UNCHANGED <<fs, idx, notebook, original, loaded, translated_any, unit_changed, units, writes, processed>>

\* the markdown cell's translation is back: compare, mark, assign
MdReturn ==
  /\ pc = "md_call"
  /\ cpc = "returned"
  /\ translated_any' = (translated_any \/ Differs(result, text))
  /\ unit_changed' = (unit_changed \/ result # text)
  /\ units' = Append(units, UnitRecord(0))
  /\ notebook' = [notebook EXCEPT !.cells[cidx].source = MdSource(script, @, result)]
  /\ cidx' = cidx + 1
  /\ pc' = "cell"
  /\ cpc' = "idle"
  /\ UNCHANGED <<cfgvars, codevars, touched>>
  /\ UNCHANGED <<translator, text, retries, attempt, result, ncalls, nsleeps, nraised, nempty, got>>
  /\ UNCHANGED <<fs, idx, original, loaded, writes, processed>>

\* translate_code_cell_source is back: if "".join(new_source) != "".join(original_source)
CodeReturn ==
  /\ pc = "tcs_return"
  /\ entry = "main"
  /\ IF Differs(Join(new_source), Join(source))
     THEN /\ translated_any' = TRUE
          /\ notebook' = [notebook EXCEPT !.cells[cidx].source = new_source]
     ELSE UNCHANGED <<translated_any, notebook>>
  /\ cidx' = cidx + 1
  /\ pc' = "cell"
  /\ UNCHANGED <<cfgvars, codevars, callvars, touched>>
  /\ UNCHANGED <<fs, idx, original, loaded, unit_changed, units, writes, processed>>

\* if translated_any is false nothing is written
NoWrite ==
  /\ pc = "finalize"
  /\ ~translated_any
  /\ pc' = "loop"
  /\ idx' = idx + 1
  /\ UNCHANGED <<cfgvars, codevars, callvars, touched>>
  /\ UNCHANGED <<fs, notebook, original, loaded, cidx, translated_any, unit_changed, units, writes, processed>>

\* open(output_path, 'w') and json.dump succeed
WriteOk ==
  /\ pc = "finalize"
  /\ translated_any
  /\ fs' = (OutputName(script, listing[idx]) :> notebook) @@ fs
  /\ writes' = writes \cup {[by |-> idx, path |-> OutputName(script, listing[idx]), outcome |-> "ok"]}
  /\ touched' = touched \cup {"write"}
  /\ pc' = "loop"
  /\ idx' = idx + 1
  /\ UNCHANGED <<cfgvars, codevars, callvars>>
  /\ UNCHANGED <<notebook, original, loaded, cidx, translated_any, unit_changed, units, processed>>

\* the write raises: open fails and leaves the directory as it was, or json.dump
\* fails and leaves a truncated file. translate_notebooks.py and
\* translate_notebooks2.py log the error; in translate_notebooks_gcloud.py the
\* exception leaves translate_markdown_cells and the batch loop
Unreadable == [json |-> "malformed", cells |-> <<>>, metadata |-> ""]
WriteFails ==
  /\ pc = "finalize"
  /\ translated_any
  /\ \E o \in {"open_error", "dump_error"} :
       /\ writes' = writes \cup {[by |-> idx, path |-> OutputName(script, listing[idx]), outcome |-> o]}
       /\ fs' = IF o = "dump_error"
                THEN (OutputName(script, listing[idx]) :> Unreadable) @@ fs
                ELSE fs
  /\ touched' = touched \cup {"write"}
  /\ IF CatchesWriteError(script)
     THEN pc' = "loop" /\ idx' = idx + 1
     ELSE pc' = "aborted" /\ idx' = idx
  /\ UNCHANGED <<cfgvars, codevars, callvars>>
  /\ UNCHANGED <<notebook, original, loaded, cidx, translated_any, unit_changed, units, processed>>

Pipeline ==
  \/ Main \/ Directory \/ NextFile \/ Load \/ Cell \/ MdReturn \/ CodeReturn
  \/ NoWrite \/ WriteOk \/ WriteFails

Next == Pipeline \/ TranslateCodeCellSource \/ Translate

\* ------------------------------------------------------------ sample inputs

MdCell(src) == [cell_type |-> "markdown", source |-> src]
CodeCell(src) == [cell_type |-> "code", source |-> src]
RawCell(src) == [cell_type |-> "raw", source |-> src]
Notebook(cells) == [json |-> "object", cells |-> cells, metadata |-> "kernelspec"]

\* x = "<19 characters>" and y = "<20 characters>" on two lines
TwoLiterals ==
  <<"x", "=", DQ>> \o Rep("a", MinLiteralLength - 1) \o <<DQ, NL>>
  \o <<"y", "=", DQ>> \o Rep("x", MinLiteralLength) \o <<DQ>>

\* "<20 characters>" followed by """<a quote and 19 characters>"""
AdjacentLiterals ==
  <<DQ>> \o Rep("a", MinLiteralLength) \o <<DQ>>
  \o <<DQ, DQ, DQ>> \o <<DQ>> \o Rep("x", MinLiteralLength - 1) \o <<DQ, DQ, DQ>>

\* a notebook of one markdown cell, and the translation an earlier run left of it
NbOne == Notebook(<<MdCell(<<<<"a">>>>)>>)
NbOld == Notebook(<<MdCell(<<<<"A">>>>)>>)
\* a markdown cell of two fragments, a raw cell, a code cell with a short and a long literal
NbScenario ==
  Notebook(<<MdCell(<<<<"a", NL>>, <<"b">>>>), RawCell(<<<<"a">>>>), CodeCell(SplitLines(TwoLiterals))>>)
\* a code cell whose two literals touch
NbAdjacent == Notebook(<<CodeCell(<<AdjacentLiterals>>)>>)
\* a blank markdown cell before a markdown cell of two fragments
NbBlank == Notebook(<<MdCell(<<<<SP, NL>>>>), MdCell(<<<<"a">>, <<"b">>>>)>>)
NbEmpty == Notebook(<<>>)
\* a markdown cell of two empty lines before a markdown cell with text
NbLines == Notebook(<<MdCell(<<<<NL>>, <<NL>>>>), MdCell(<<<<"a">>>>)>>)
\* two markdown cells with text
NbTwo == Notebook(<<MdCell(<<<<"a">>>>), MdCell(<<<<"b">>>>)>>)
Notebooks == {NbScenario, NbAdjacent, NbBlank, NbEmpty, NbLines, NbTwo}

FileA == <<"a", ".ipynb">>
FileB == <<"b", ".ipynb">>
FileT == <<"notes", ".txt">>

\* the reference directory of a program: a notebook, the output an earlier run
\* left for it, a file that does not parse, a file that is no notebook
DirNames(s) == {FileA, OutputName(s, FileA), FileB, FileT}
DirFiles(s) ==
  (FileA :> NbOne) @@ (OutputName(s, FileA) :> NbOld) @@ (FileB :> Unreadable) @@ (FileT :> Unreadable)

\* os.listdir: the files in any order; a listing names no file twice
Listings(names, n) ==
  {l \in UNION {[1..k -> names] : k \in 0..n} : \A i, j \in 1..Len(l) : l[i] = l[j] => i = j}

\* the options of a program: only translate_notebooks2.py has --engine and --translate-code
Options(s) ==
  IF s = "translate_notebooks2"
  THEN {[engine |-> e, translate_code |-> tc] : e \in {"googletrans", "gcloud"}, tc \in BOOLEAN}
  ELSE {[engine |-> "none", translate_code |-> FALSE]}

\* a run of a program: over a missing directory, over up to MaxListing files of
\* the reference directory, or over a directory holding one of the sample notebooks
Init ==
  /\ entry = "main"
  /\ script \in Scripts
  /\ \E o \in Options(script) : engine = o.engine /\ translate_code = o.translate_code
  /\ cred \in BOOLEAN
  /\ \/ /\ dir_exists = FALSE
        /\ listing = <<>>
        /\ fs = <<>>
     \/ /\ dir_exists = TRUE
        /\ listing \in Listings(DirNames(script), MaxListing)
        /\ fs = [n \in {listing[i] : i \in 1..Len(listing)} |-> DirFiles(script)[n]]
     \/ /\ dir_exists = TRUE
        /\ listing = <<FileA>>
        /\ \E nb \in Notebooks : fs = (FileA :> nb)
  /\ pc = "main"
  /\ idx = 0 /\ notebook = NoDoc /\ original = NoDoc /\ loaded = 0 /\ cidx = 0
  /\ translated_any = FALSE /\ unit_changed = FALSE /\ units = <<>> /\ writes = {} /\ processed = {}
  /\ IdleCode /\ IdleCall
  /\ translator = "none"
  /\ retries = 0
  /\ touched = {}

Spec == Init /\ [][Next]_vars

\* ------------------------------------------------------------------ claims

\* the text of the call in progress is empty or whitespace only
TextIsBlank == \A i \in 1..Len(text) : text[i] \in {SP, NL}

\* C1 (SpecCall): in translate_text and GoogletransTranslator.translate, for a
\* non-blank text and any retries >= 0, as long as every backend call has raised
\* there have been at most `retries` of them, and when the call returns after
\* nothing but raising calls it has made exactly `retries` calls and returns the
\* original text (there is no position in which an exception leaves the call).
C1_RetryExhaustionFallback ==
  (translator \in Retrying /\ ~TextIsBlank /\ nraised = ncalls) =>
    /\ ncalls <= retries
    /\ cpc \in {"entry", "attempt", "sleep", "exhausted", "returned"}
    /\ cpc = "returned" => (ncalls = retries /\ result = text)

\* C1 witness: all MaxRetries attempts raised and the call returned the text
C1_Witness ==
  /\ translator \in Retrying /\ ~TextIsBlank /\ cpc = "returned"
  /\ retries = MaxRetries /\ nraised = MaxRetries /\ ncalls = MaxRetries /\ result = text

\* C2 (SpecCall): in the retrying entry points, once the backend has returned a
\* non-empty result the call has returned exactly that result, the result came
\* on the call after the failed ones (k raising calls, then call k + 1), and the
\* call is over, so no backend call follows.
C2_SuccessStopsRetryLoop ==
  (translator \in Retrying /\ got # {}) =>
    /\ cpc = "returned"
    /\ got = {result}
    /\ ncalls = nraised + nempty + 1
    /\ ncalls <= retries

\* C2 witness: two raising calls, then a non-empty result on the third
C2_Witness ==
  /\ translator \in Retrying /\ got # {} /\ nraised = 2 /\ nempty = 0 /\ ncalls = 3
  /\ cpc = "returned" /\ result # text

\* C4 (SpecCall): in each of the four translate entry points a text that is
\* empty or whitespace only causes no backend call and no sleep, and the value
\* returned is the text.
C4_EmptyTextShortCircuit ==
  TextIsBlank =>
    /\ ncalls = 0
    /\ nsleeps = 0
    /\ cpc \in {"entry", "returned"}
    /\ cpc = "returned" => result = text

\* C4 witness: a whitespace-only text came back from a call with a retry budget
C4_Witness ==
  /\ TextIsBlank /\ text # <<>> /\ cpc = "returned" /\ result = text /\ retries > 0

\* C5 (SpecCode): in translate_code_cell_source, for every body and threshold, a
\* match whose content has min_length - 1 characters is not passed to
\* translator.translate and the replacer returns it unchanged, and a match whose
\* content has min_length characters is passed to translator.translate.
C5_ThresholdBoundary ==
  /\ pc = "replacer" => (midx \in sent /\ text = GroupContent(code_text, matches[midx]))
  /\ \A k \in 1..Len(matches) :
       LET content == GroupContent(code_text, matches[k])
           visited == k < midx
       IN /\ (visited /\ Len(content) = min_length - 1) =>
               (k \notin sent /\ repl[k] = GroupAll(code_text, matches[k]))
          /\ (visited /\ Len(content) = min_length) => k \in sent
          /\ k \in sent => (k <= midx /\ pc \in {"sub", "replacer", "tcs_return"})

\* C5 witness: one body with a literal just below the threshold, left alone, and
\* one at the threshold, sent
C5_Witness ==
  /\ pc = "tcs_return"
  /\ \E j, k \in 1..Len(matches) :
       /\ Len(GroupContent(code_text, matches[j])) = min_length - 1 /\ j \notin sent
       /\ Len(GroupContent(code_text, matches[k])) = min_length /\ k \in sent

\* the document in memory has been through its write decision
DocFinished ==
  /\ loaded > 0
  /\ \/ pc \in {"loop", "done"} /\ idx = loaded + 1
     \/ pc = "aborted" /\ idx = loaded

\* a write of the output of the document in memory was attempted
WriteAttempted == \E w \in writes : w.by = loaded

\* some cell's body in memory is not the body that was loaded
SomeBodyDiffers ==
  \E j \in 1..Len(original.cells) :
    Join(notebook.cells[j].source) # Join(original.cells[j].source)

Eligible(cell) == cell.cell_type = "markdown" \/ (cell.cell_type = "code" /\ translate_code)

\* C6 (Spec): at every moment, and so when the document is handed to the writer,
\* the metadata and every cell that is not eligible are those of the parsed
\* input; no translate call and no literal scan runs for such a cell; a file
\* written holds the document in memory.
C6_IneligibleContentPreserved ==
  loaded > 0 =>
    /\ notebook.metadata = original.metadata
    /\ notebook.json = original.json
    /\ Len(notebook.cells) = Len(original.cells)
    /\ \A j \in 1..Len(original.cells) :
         ~Eligible(original.cells[j]) => notebook.cells[j] = original.cells[j]
    /\ pc \in {"md_call", "tcs_entry", "sub", "replacer", "tcs_return"} =>
         Eligible(original.cells[cidx])
    /\ (DocFinished /\ \E w \in writes : w.by = loaded /\ w.outcome = "ok") =>
         fs[OutputName(script, listing[loaded])] = notebook

\* C6 witness: translate_notebooks2.py without --translate-code wrote a document
\* that holds a raw cell and a code cell
C6_Witness ==
  /\ script = "translate_notebooks2" /\ ~translate_code /\ DocFinished
  /\ \E w \in writes : w.by = loaded /\ w.outcome = "ok"
  /\ \E j, k \in 1..Len(original.cells) :
       original.cells[j].cell_type = "raw" /\ original.cells[k].cell_type = "code"

\* C7 as stated (Spec): every write goes to a path other than the document being
\* processed, and to no .ipynb file of the directory listing.
C7_InputsNeverWritten ==
  \A w \in writes :
    /\ w.path # listing[w.by]
    /\ \A i \in 1..Len(listing) : EndsWithIpynb(listing[i]) => w.path # listing[i]

\* C8 as stated (Spec): a failed write does not end the run, and the run ends
\* with every .ipynb file of the listing handed to the document function.
C8_WriteFailureIsolated ==
  (\E w \in writes : w.outcome # "ok") =>
    /\ pc # "aborted"
    /\ pc = "done" => processed = {i \in 1..Len(listing) : EndsWithIpynb(listing[i])}

\* C9 (Spec): the step of a document whose load fails changes nothing but the
\* position of the batch loop, which moves to the next file: no backend call, no
\* write, no exception, and the rest of the listing is processed from the state
\* the run would be in without that document.
C9_LoadFailureIsolated ==
  [][(pc = "load" /\ fs[listing[idx]].json # "object") =>
       /\ pc' = "loop"
       /\ idx' = idx + 1
       /\ UNCHANGED <<fs, writes, notebook, original, loaded, translated_any, unit_changed>>
       /\ UNCHANGED <<cfgvars, codevars, callvars>>
       /\ touched' \ {"read"} = touched \ {"read"}]_vars

\* C9 witness: the first file did not load and the second is being translated
C9_Witness ==
  /\ Len(listing) = 2 /\ listing[1] = FileB /\ idx = 2 /\ loaded = 2 /\ pc = "md_call"
  /\ cpc = "attempt" /\ writes = {}

\* C10 (Spec): with the credentialed provider selected and no credential in the
\* environment, the run stops at provider construction: nothing is read, no
\* backend is called, nothing is written, no file is handed to the document function.
C10_FailFastOnMissingCredential ==
  ((script = "translate_notebooks_gcloud" \/ (script = "translate_notebooks2" /\ engine = "gcloud"))
   /\ ~cred) =>
    /\ pc \in {"main", "exit"}
    /\ touched = {}
    /\ writes = {}
    /\ processed = {}
    /\ loaded = 0

\* C10 witness: the run over a directory with notebooks ended at provider construction
C10_Witness == pc = "exit" /\ ~cred /\ dir_exists /\ Len(listing) = MaxListing

\* the two provider classes of translate_notebooks2.py
Providers == {"GoogletransTranslator", "GoogleCloudTranslator"}

\* C11 (SpecCall): when translate of a provider class has returned for a non-blank
\* text and every backend call it made failed by raising, what the caller gets is
\* not the input text, the value a successful translation equal to the input
\* would give (the caller sees nothing of a call but its return value).
C11_ProviderSurfacesFailure ==
  (translator \in Providers /\ ~TextIsBlank /\ cpc = "returned"
   /\ ncalls > 0 /\ nraised = ncalls) =>
    result # text

\* C12 (SpecCall): with retries >= 2, a call for a non-blank text whose backend
\* raised on the first attempt does not return before a second backend call, and
\* a call that returns without any non-empty result after a raising attempt has
\* made `retries` backend calls, whichever entry point is used.
C12_TransientFailuresRetried ==
  (retries >= 2 /\ ~TextIsBlank /\ cpc = "returned" /\ nraised >= 1) =>
    /\ ncalls >= 2
    /\ got = {} => ncalls = retries

\* C13 (SpecCall): in translate_text and GoogletransTranslator.translate the
\* sleeps are the gaps between backend calls: once a call was made there is one
\* sleep less than calls, so a call that returns after `retries` raising attempts
\* has slept retries - 1 times.
C13_SleepsOnlyBetweenAttempts ==
  (translator \in Retrying /\ cpc = "returned" /\ ncalls > 0) =>
    nsleeps = ncalls - 1

\* the unit the walk stands at: the text of the markdown cell, or the content of
\* the literal the substitution has reached in the code cell
UnitAtPosition ==
  IF pc = "md_call" THEN Join(notebook.cells[cidx].source)
  ELSE GroupContent(Join(notebook.cells[cidx].source), matches[midx])

\* C14 (Spec): the run moves forward only. The file index never decreases and
\* moves on only from a file that is skipped, failed to load, or was finalized;
\* within a loaded document the cell index never decreases, and within a code
\* cell the literal index never decreases; every backend call is for the unit at
\* the current file, cell and literal; a document is loaded only at the current
\* index, after every earlier one; a write is made only for the current
\* document and after its last cell.
C14_StrictSequentialOrder ==
  [][ /\ idx' >= idx
      /\ idx' # idx => (idx' = idx + 1 /\ pc \in {"dir", "loop", "load", "finalize"})
      /\ loaded' # loaded => (pc = "load" /\ loaded' = idx /\ loaded' > loaded)
      /\ loaded' = loaded => cidx' >= cidx
      /\ pc \in {"sub", "replacer"} => (midx' >= midx /\ cidx' = cidx /\ idx' = idx)
      /\ ncalls' = ncalls + 1 =>
           /\ pc \in {"md_call", "replacer"}
           /\ loaded = idx
           /\ cidx \in 1..Len(notebook.cells)
           /\ pc = "replacer" => midx \in 1..Len(matches)
           /\ text = UnitAtPosition
      /\ touched' # touched /\ "read" \in touched' \ touched => pc = "load"
      /\ writes' # writes =>
           /\ pc = "finalize"
           /\ loaded = idx
           /\ cidx > Len(notebook.cells)
           /\ \A w \in writes' \ writes : w.by = idx
    ]_vars

\* C14 witness: the second file's cell is at the backend after the first file was written
C14_Witness ==
  /\ idx = 2 /\ loaded = 2 /\ pc = "md_call" /\ cpc = "attempt" /\ ncalls = 1
  /\ \E w \in writes : w.by = 1

\* C14 witness of the order within a document: the second literal of the third
\* cell is at the backend
C14_WitnessCell == pc = "replacer" /\ cidx = 3 /\ midx = 2 /\ ncalls = 1

\* C15 (Spec): when a document has been handed to the writer, every cell whose
\* body is the body that was loaded still has the loaded sequence of source
\* fragments, in each of the three programs.
C15_UnchangedCellKeepsSource ==
  (DocFinished /\ WriteAttempted) =>
    \A j \in 1..Len(original.cells) :
      Join(notebook.cells[j].source) = Join(original.cells[j].source) =>
        notebook.cells[j].source = original.cells[j].source

\* the return value of the translate call made for literal k of the cell in progress
ResultOf(k) ==
  LET i == CHOOSE i \in 1..Len(units) : units[i].cell = cidx /\ units[i].lit = k
  IN units[i].result

\* the body from pos on in which the content of every match from k on that has
\* min_length characters or more is replaced by the translate call's return value
RECURSIVE ExpectedFrom(_, _)
ExpectedFrom(k, pos) ==
  IF k > Len(matches) THEN SubSeq(code_text, pos, Len(code_text))
  ELSE LET m == matches[k]
           marker == SubSeq(code_text, m.start, m.start + m.n - 1)
           content == SubSeq(code_text, m.start + m.n, m.close - 1)
       IN SubSeq(code_text, pos, m.start + m.n - 1)
          \o (IF Len(content) >= min_length THEN ResultOf(k) ELSE content)
          \o marker
          \o ExpectedFrom(k + 1, m.close + m.n)

\* the matches whose content has min_length characters or more
LongMatches ==
  {k \in 1..Len(matches) : matches[k].close - matches[k].start - matches[k].n >= min_length}

\* C16 (SpecCode): when translate_code_cell_source returns, one translate call
\* was made for each match with a content of min_length or more, with exactly
\* that content; the returned lines concatenate to the body with those contents
\* replaced by the calls' return values, the markers and everything else in
\* place; if every call returned its argument they concatenate to the body.
C16_CodeOutsideLiteralsPreserved ==
  pc = "tcs_return" =>
    /\ code_text = Join(source)
    /\ Len(units) = Cardinality(LongMatches)
    /\ \A k \in LongMatches :
         \E i \in 1..Len(units) :
           /\ units[i].lit = k
           /\ units[i].text = SubSeq(code_text, matches[k].start + matches[k].n, matches[k].close - 1)
    /\ Join(new_source) = ExpectedFrom(1, 1)
    /\ (\A i \in 1..Len(units) : units[i].result = units[i].text) =>
         Join(new_source) = Join(source)

\* C16 witness: a body with code before and after its literal, the literal's
\* content replaced by a different text
C16_Witness ==
  /\ pc = "tcs_return" /\ Len(matches) = 1 /\ Len(units) = 1
  /\ matches[1].start > 1 /\ matches[1].close + matches[1].n <= Len(code_text)
  /\ units[1].result # units[1].text
  /\ Join(new_source) # Join(source)

\* the quote markers of the language: ', ", ''' and """
LiteralMarkers == {<<SQ>>, <<DQ>>, <<SQ, SQ, SQ>>, <<DQ, DQ, DQ>>}

\* C17 (SpecCode): every match the substitution visits opens with one of the
\* markers ', ", ''' or """ and closes with the same marker, so what lies
\* between two literals is never a content and never passed to translate.
C17_MarkersAreLiteralMarkers ==
  \A k \in 1..Len(matches) :
    LET m == matches[k]
    IN /\ SubSeq(code_text, m.start, m.start + m.n - 1) \in LiteralMarkers
       /\ SubSeq(code_text, m.close, m.close + m.n - 1) = SubSeq(code_text, m.start, m.start + m.n - 1)

\* the run uses one of the retrying entry points
RetryingRun == translator \in Retrying

\* the units of the document whose every attempt failed
AllAttemptsFailed(u) == u.calls > 0 /\ u.failed

\* the units of the document whose translation is a text other than the unit
TranslatedToOther(u) == ~u.failed /\ u.result # u.text

\* the return value of the translate call made for literal k of cell j
UnitResult(j, k) ==
  LET i == CHOOSE i \in 1..Len(units) : units[i].cell = j /\ units[i].lit = k
  IN units[i].result

\* the body of code cell j in which the content of every literal from k on that
\* has MinLiteralLength characters or more is replaced by its unit's result
RECURSIVE BodyOfResults(_, _, _, _, _)
BodyOfResults(body, ms, j, k, pos) ==
  IF k > Len(ms) THEN SubSeq(body, pos, Len(body))
  ELSE LET m == ms[k]
           content == SubSeq(body, m.start + m.n, m.close - 1)
       IN SubSeq(body, pos, m.start + m.n - 1)
          \o (IF Len(content) >= MinLiteralLength THEN UnitResult(j, k) ELSE content)
          \o SubSeq(body, m.close, m.close + m.n - 1)
          \o BodyOfResults(body, ms, j, k + 1, m.close + m.n)

\* every unit of the finished document is in the document as its call returned
\* it: a failed unit as its original text, any other as its translation
UnitsInPlace ==
  /\ \A i \in 1..Len(units) : AllAttemptsFailed(units[i]) => units[i].result = units[i].text
  /\ \A j \in 1..Len(original.cells) :
       LET body == Join(original.cells[j].source)
       IN /\ (original.cells[j].cell_type = "markdown") =>
               Join(notebook.cells[j].source) = UnitResult(j, 0)
          /\ (original.cells[j].cell_type = "code" /\ translate_code) =>
               Join(notebook.cells[j].source) = BodyOfResults(body, FindAll(body, 1), j, 1, 1)

\* the case of C18: a finished document of several units, each of which either
\* failed on every attempt or was translated to a different text
SeveralUnitsCase ==
  /\ RetryingRun /\ DocFinished /\ Len(units) >= 2
  /\ \A i \in 1..Len(units) : AllAttemptsFailed(units[i]) \/ TranslatedToOther(units[i])

C19_BoundedAttempts ==
  /\ [](translator \in Retrying =>
          /\ ncalls <= retries
          /\ cpc = "returned" => (result \in got \/ result = text)
          /\ (cpc = "returned" /\ ~TextIsBlank) => result # <<>>
          /\ <<>> \notin got)
  /\ (translator \in Retrying /\ cpc = "entry") ~> (cpc = "returned")

\* C19 witness: a call whose attempts raised, returned nothing and at last
\* returned a text, all within the budget
C19_Witness ==
  /\ translator \in Retrying /\ cpc = "returned" /\ retries = MaxRetries
  /\ nraised >= 1 /\ nempty >= 1 /\ ncalls = MaxRetries
  /\ result \in got /\ result # text

====
